---- MODULE Spec2Model ----
(***************************************************************************)
(* Model of wgpu_thing: the render state (src/src/state.rs) and the event  *)
(* loop closure driving it (src/src/run.rs).                               *)
(*                                                                         *)
(* The GPU, the surface and the window system are recorded by their        *)
(* observable effects: `state.surface` is the configuration the surface    *)
(* was last configured with, `calls` is the list of calls the handler of   *)
(* the current event has made on the device, surface, queue, window and    *)
(* logger, in program order.                                               *)
(***************************************************************************)
EXTENDS Integers, Sequences, FiniteSets, TLC

VARIABLES
    phase,          \* where `run` is: Start, Panicked, Events, Redraws, Destroyed
    state,          \* the `State` struct: surface, config, size, render_pipeline
    control_flow,   \* winit's *control_flow: Poll or Exit
    window,         \* the window: whether a redraw of it is pending
    pc,             \* frame protocol position inside the RedrawRequested handler
    event,          \* the event being handled (or last handled)
    calls,          \* calls made by the handler of `event`, in order
    pre,            \* state and control_flow when the handler of `event` began
    last_result,    \* result of the last completed State::render call
    prev_result,    \* result of the render call before that
    batch_events    \* whether the current event batch held a window event

vars == <<phase, state, control_flow, window, pc, event, calls, pre,
          last_result, prev_result, batch_events>>

---------------------------------------------------------------------------
(* Bounds *)

\* Largest window dimension the environment reports (u32 in the code).
MaxDim == 2

Dims == 0 .. MaxDim

Sizes == [width : Dims, height : Dims]

PositiveSizes == {s \in Sizes : s.width > 0 /\ s.height > 0}

\* Texture formats a surface/adapter pair may report, in preference order.
FormatLists == { <<>>, <<"Bgra8UnormSrgb">>, <<"Rgba8UnormSrgb", "Bgra8UnormSrgb">> }

\* wgpu::SurfaceError
SurfaceError == {"Timeout", "Outdated", "Lost", "OutOfMemory"}

WindowIds == {"window", "other_window"}

WindowEventKinds ==
    {"CloseRequested", "KeyboardInput", "Resized", "ScaleFactorChanged", "Focused"}

ElementState == {"Pressed", "Released"}

\* Option<VirtualKeyCode>
VirtualKeyCodes == {"Escape", "Space", "None"}

---------------------------------------------------------------------------
(* State::new *)

NoConfig ==
    [usage |-> "None", format |-> "None", width |-> 0, height |-> 0,
     present_mode |-> "None", alpha_mode |-> "None"]

NoPipeline ==
    [vertex_entry |-> "None", fragment_entry |-> "None", vertex_buffers |-> 0,
     target_format |-> "None", blend |-> "None", write_mask |-> "None",
     topology |-> "None", front_face |-> "None", cull_mode |-> "None",
     polygon_mode |-> "None", depth_stencil |-> "None", sample_count |-> 0]

\* No `State` exists before State::new returns.
NoState ==
    [surface |-> [configured |-> FALSE, config |-> NoConfig],
     config |-> NoConfig,
     size |-> [width |-> 0, height |-> 0],
     render_pipeline |-> NoPipeline]

SurfaceConfiguration(size, format) ==
    [usage |-> "RENDER_ATTACHMENT",
     format |-> format,
     width |-> size.width,
     height |-> size.height,
     present_mode |-> "Fifo",
     alpha_mode |-> "Auto"]

RenderPipeline(config) ==
    [vertex_entry |-> "vs_main", fragment_entry |-> "fs_main", vertex_buffers |-> 0,
     target_format |-> config.format, blend |-> "REPLACE", write_mask |-> "ALL",
     topology |-> "TriangleList", front_face |-> "Ccw", cull_mode |-> "Back",
     polygon_mode |-> "Fill", depth_stencil |-> "None", sample_count |-> 1]

\* Mutant of new: with no supported format reported, a default format is used.
new_default_format(inner_size, adapter, device, formats) ==
    LET c0 == <<"window.inner_size", "Instance::new", "instance.create_surface",
                "instance.request_adapter">>
        c1 == c0 \o <<"adapter.request_device">>
        c2 == c1 \o <<"surface.get_supported_formats">>
    IN  IF ~adapter THEN [ok |-> FALSE, self |-> NoState, calls |-> c0]
        ELSE IF ~device THEN [ok |-> FALSE, self |-> NoState, calls |-> c1]
        ELSE LET format == IF Len(formats) = 0 THEN "Bgra8UnormSrgb" ELSE formats[1]
                 config == SurfaceConfiguration(inner_size, format)
             IN  [ok |-> TRUE,
                  self |-> [surface |-> [configured |-> TRUE, config |-> config],
                            config |-> config,
                            size |-> inner_size,
                            render_pipeline |-> RenderPipeline(config)],
                  calls |-> c2 \o <<"surface.configure", "device.create_shader_module",
                                    "device.create_pipeline_layout",
                                    "device.create_render_pipeline">>]

\* State::new: [ok, self, calls].  `inner_size` is what window.inner_size()
\* returns, `adapter` and `device` say whether the two
\* requests succeed (both are unwrapped), `formats` is what
\* surface.get_supported_formats returns (indexed at [0]).
new(inner_size, adapter, device, formats) ==
    LET size == inner_size
        c0 == <<"window.inner_size", "Instance::new", "instance.create_surface",
                "instance.request_adapter">>
        c1 == c0 \o <<"adapter.request_device">>
        c2 == c1 \o <<"surface.get_supported_formats">>
    IN  IF ~adapter THEN [ok |-> FALSE, self |-> NoState, calls |-> c0]
        ELSE IF ~device THEN [ok |-> FALSE, self |-> NoState, calls |-> c1]
        ELSE IF Len(formats) = 0 THEN [ok |-> FALSE, self |-> NoState, calls |-> c2]
        ELSE LET config == SurfaceConfiguration(size, formats[1])
             IN  [ok |-> TRUE,
                  self |-> [surface |-> [configured |-> TRUE, config |-> config],
                            config |-> config,
                            size |-> size,
                            render_pipeline |-> RenderPipeline(config)],
                  calls |-> c2 \o <<"surface.configure", "device.create_shader_module",
                                    "device.create_pipeline_layout",
                                    "device.create_render_pipeline">>]

---------------------------------------------------------------------------
(* State::resize, State::input, State::update *)

\* Mutant of resize: the zero-dimension guard is missing.
resize_unguarded(self, new_size) ==
    LET config == [self.config EXCEPT !.width = new_size.width,
                                      !.height = new_size.height]
    IN  [self |-> [self EXCEPT !.size = new_size,
                               !.config = config,
                               !.surface = [configured |-> TRUE, config |-> config]],
         calls |-> <<"surface.configure">>]

\* Mutant of resize: only the width is checked against zero.
resize_width_only(self, new_size) ==
    IF new_size.width > 0
    THEN LET config == [self.config EXCEPT !.width = new_size.width,
                                           !.height = new_size.height]
         IN  [self |-> [self EXCEPT !.size = new_size,
                                    !.config = config,
                                    !.surface = [configured |-> TRUE, config |-> config]],
              calls |-> <<"surface.configure">>]
    ELSE [self |-> self, calls |-> <<>>]

\* Mutant of resize: width and height are swapped when stored in the config.
resize_swapped(self, new_size) ==
    IF new_size.width > 0 /\ new_size.height > 0
    THEN LET config == [self.config EXCEPT !.width = new_size.height,
                                           !.height = new_size.width]
         IN  [self |-> [self EXCEPT !.size = new_size,
                                    !.config = config,
                                    !.surface = [configured |-> TRUE, config |-> config]],
              calls |-> <<"surface.configure">>]
    ELSE [self |-> self, calls |-> <<>>]

\* Mutant of resize: the format is chosen again on every reconfiguration.
resize_renegotiates(self, new_size) ==
    IF new_size.width > 0 /\ new_size.height > 0
    THEN LET config == [self.config EXCEPT !.width = new_size.width,
                                           !.height = new_size.height,
                                           !.format = "Bgra8UnormSrgb"]
         IN  [self |-> [self EXCEPT !.size = new_size,
                                    !.config = config,
                                    !.surface = [configured |-> TRUE, config |-> config]],
              calls |-> <<"surface.configure">>]
    ELSE [self |-> self, calls |-> <<>>]

\* Mutant of resize: the stored size is updated, the configuration is not.
resize_size_only(self, new_size) ==
    IF new_size.width > 0 /\ new_size.height > 0
    THEN [self |-> [self EXCEPT !.size = new_size,
                                !.surface = [configured |-> TRUE, config |-> self.config]],
          calls |-> <<"surface.configure">>]
    ELSE [self |-> self, calls |-> <<>>]

\* State::resize: [self, calls].
resize(self, new_size) ==
    IF new_size.width > 0 /\ new_size.height > 0
    THEN LET config == [self.config EXCEPT !.width = new_size.width,
                                           !.height = new_size.height]
         IN  [self |-> [self EXCEPT !.size = new_size,
                                    !.config = config,
                                    !.surface = [configured |-> TRUE, config |-> config]],
              calls |-> <<"surface.configure">>]
    ELSE [self |-> self, calls |-> <<>>]

\* Mutant of input: the hook consumes close requests.
input_consumes_close(self, ev) == ev.kind = "CloseRequested"

\* State::input: whether the event has been fully processed.
input(self, ev) == FALSE

\* State::update
update(self) == self

---------------------------------------------------------------------------
(* State::render, in the three stretches the frame protocol names *)

\* Mutant of render_encode: the draw call is issued twice.
render_encode_draw_twice ==
    <<"texture.create_view", "device.create_command_encoder",
      "encoder.begin_render_pass", "render_pass.set_pipeline",
      "render_pass.draw(0..3, 0..1)", "render_pass.draw(0..3, 0..1)",
      "drop(render_pass)">>

\* Mutant of render_encode: the render pass is not dropped before the encoder
\* is finished.
render_encode_pass_open ==
    <<"texture.create_view", "device.create_command_encoder",
      "encoder.begin_render_pass", "render_pass.set_pipeline",
      "render_pass.draw(0..3, 0..1)">>

\* The view, the encoder and the render pass block.
render_encode ==
    <<"texture.create_view", "device.create_command_encoder",
      "encoder.begin_render_pass", "render_pass.set_pipeline",
      "render_pass.draw(0..3, 0..1)", "drop(render_pass)">>

\* self.queue.submit(std::iter::once(encoder.finish()))
render_submit == <<"encoder.finish", "queue.submit">>

\* Mutant of render_present: the surface is reconfigured before the present.
render_present_reconfigures == <<"surface.configure", "output.present">>

\* output.present()
render_present == <<"output.present">>

---------------------------------------------------------------------------
(* The closure given to event_loop.run, one operator per match arm *)

NoEvent ==
    [type |-> "NewEvents", window_id |-> "window", kind |-> "Focused",
     key_state |-> "Released", key |-> "None", size |-> [width |-> 0, height |-> 0]]

KeyboardInput(window_id, key_state, key) ==
    [NoEvent EXCEPT !.type = "WindowEvent", !.window_id = window_id,
                    !.kind = "KeyboardInput", !.key_state = key_state, !.key = key]

SizeEvent(window_id, kind, size) ==
    [NoEvent EXCEPT !.type = "WindowEvent", !.window_id = window_id,
                    !.kind = kind, !.size = size]

PlainEvent(window_id, kind) ==
    [NoEvent EXCEPT !.type = "WindowEvent", !.window_id = window_id, !.kind = kind]

\* The window events the loop may deliver.  Events of another window are taken
\* from the kinds that would act if they were ours.
WindowEvents ==
    {PlainEvent("window", k) : k \in {"CloseRequested", "Focused"}}
    \cup {KeyboardInput("window", ks, k) : ks \in ElementState, k \in VirtualKeyCodes}
    \cup {SizeEvent("window", k, s) : k \in {"Resized", "ScaleFactorChanged"}, s \in Sizes}
    \cup {PlainEvent("other_window", "CloseRequested"),
          KeyboardInput("other_window", "Pressed", "Escape")}
    \cup {SizeEvent("other_window", "Resized", s) : s \in PositiveSizes}

LoopEvent(type, window_id) ==
    [NoEvent EXCEPT !.type = type, !.window_id = window_id]

\* Mutant of WindowEventArm: the key state is not matched, any Escape event exits.
WindowEventArm_any_escape(self, cf, ev) ==
    IF ev.window_id # "window" THEN [self |-> self, control_flow |-> cf, calls |-> <<>>]
    ELSE IF input(self, ev)
         THEN [self |-> self, control_flow |-> cf, calls |-> <<"state.input">>]
    ELSE IF \/ ev.kind = "CloseRequested"
            \/ ev.kind = "KeyboardInput" /\ ev.key = "Escape"
         THEN [self |-> self, control_flow |-> "Exit", calls |-> <<"state.input">>]
    ELSE IF ev.kind \in {"Resized", "ScaleFactorChanged"}
         THEN LET r == resize(self, ev.size)
              IN  [self |-> r.self, control_flow |-> cf,
                   calls |-> <<"state.input">> \o r.calls]
    ELSE [self |-> self, control_flow |-> cf, calls |-> <<"state.input">>]

\* Mutant of WindowEventArm: ScaleFactorChanged is not routed to resize.
WindowEventArm_no_scale(self, cf, ev) ==
    IF ev.window_id # "window" THEN [self |-> self, control_flow |-> cf, calls |-> <<>>]
    ELSE IF input(self, ev)
         THEN [self |-> self, control_flow |-> cf, calls |-> <<"state.input">>]
    ELSE IF \/ ev.kind = "CloseRequested"
            \/ ev.kind = "KeyboardInput" /\ ev.key_state = "Pressed" /\ ev.key = "Escape"
         THEN [self |-> self, control_flow |-> "Exit", calls |-> <<"state.input">>]
    ELSE IF ev.kind = "Resized"
         THEN LET r == resize(self, ev.size)
              IN  [self |-> r.self, control_flow |-> cf,
                   calls |-> <<"state.input">> \o r.calls]
    ELSE [self |-> self, control_flow |-> cf, calls |-> <<"state.input">>]

\* Mutant of WindowEventArm: the window id of the event is not compared.
WindowEventArm_any_window(self, cf, ev) ==
    IF input(self, ev)
    THEN [self |-> self, control_flow |-> cf, calls |-> <<"state.input">>]
    ELSE IF \/ ev.kind = "CloseRequested"
            \/ ev.kind = "KeyboardInput" /\ ev.key_state = "Pressed" /\ ev.key = "Escape"
         THEN [self |-> self, control_flow |-> "Exit", calls |-> <<"state.input">>]
    ELSE IF ev.kind \in {"Resized", "ScaleFactorChanged"}
         THEN LET r == resize(self, ev.size)
              IN  [self |-> r.self, control_flow |-> cf,
                   calls |-> <<"state.input">> \o r.calls]
    ELSE [self |-> self, control_flow |-> cf, calls |-> <<"state.input">>]

\* Event::WindowEvent { ref event, window_id } if window_id == window.id()
WindowEventArm(self, cf, ev) ==
    IF ev.window_id # "window" THEN [self |-> self, control_flow |-> cf, calls |-> <<>>]
    ELSE IF input(self, ev)
         THEN [self |-> self, control_flow |-> cf, calls |-> <<"state.input">>]
    ELSE IF \/ ev.kind = "CloseRequested"
            \/ ev.kind = "KeyboardInput" /\ ev.key_state = "Pressed" /\ ev.key = "Escape"
         THEN [self |-> self, control_flow |-> "Exit", calls |-> <<"state.input">>]
    ELSE IF ev.kind = "Resized"
         THEN LET r == resize(self, ev.size)
              IN  [self |-> r.self, control_flow |-> cf,
                   calls |-> <<"state.input">> \o r.calls]
    ELSE IF ev.kind = "ScaleFactorChanged"
         THEN LET r == resize(self, ev.size)
              IN  [self |-> r.self, control_flow |-> cf,
                   calls |-> <<"state.input">> \o r.calls]
    ELSE [self |-> self, control_flow |-> cf, calls |-> <<"state.input">>]

\* Event::RedrawRequested(window_id) if window_id == window.id()
RedrawArmTaken(window_id) == window_id = "window"

\* Mutant of RenderErrArm: Lost is logged like the other errors.
RenderErrArm_lost_logged(self, cf, e) ==
    IF e = "OutOfMemory"
    THEN [self |-> self, control_flow |-> "Exit", calls |-> <<>>]
    ELSE [self |-> self, control_flow |-> cf, calls |-> <<"log::error">>]

\* Mutant of RenderErrArm: OutOfMemory is logged like the other errors.
RenderErrArm_oom_continues(self, cf, e) ==
    IF e = "Lost"
    THEN LET r == resize(self, self.size)
         IN  [self |-> r.self, control_flow |-> cf, calls |-> r.calls]
    ELSE [self |-> self, control_flow |-> cf, calls |-> <<"log::error">>]

\* Mutant of RenderErrArm: Outdated is treated like Lost.
RenderErrArm_outdated_resizes(self, cf, e) ==
    IF e \in {"Lost", "Outdated"}
    THEN LET r == resize(self, self.size)
         IN  [self |-> r.self, control_flow |-> cf, calls |-> r.calls]
    ELSE IF e = "OutOfMemory"
    THEN [self |-> self, control_flow |-> "Exit", calls |-> <<>>]
    ELSE [self |-> self, control_flow |-> cf, calls |-> <<"log::error">>]

\* Mutant of RenderErrArm: a lost surface ends the loop like OutOfMemory.
RenderErrArm_lost_exits(self, cf, e) ==
    IF e \in {"Lost", "OutOfMemory"}
    THEN [self |-> self, control_flow |-> "Exit", calls |-> <<>>]
    ELSE [self |-> self, control_flow |-> cf, calls |-> <<"log::error">>]

\* The Err arms of `match state.render()`.
RenderErrArm(self, cf, e) ==
    IF e = "Lost"
    THEN LET r == resize(self, self.size)
         IN  [self |-> r.self, control_flow |-> cf, calls |-> r.calls]
    ELSE IF e = "OutOfMemory"
    THEN [self |-> self, control_flow |-> "Exit", calls |-> <<>>]
    ELSE [self |-> self, control_flow |-> cf, calls |-> <<"log::error">>]

\* Mutant of MainEventsClearedArm: a redraw is requested only when none is pending
\* and the last frame attempt did not fail.
MainEventsClearedArm_on_demand(win, last) ==
    IF last \in {"None", "Ok"}
    THEN [window |-> [win EXCEPT !.redraw_requested = TRUE],
          calls |-> <<"window.request_redraw">>]
    ELSE [window |-> win, calls |-> <<>>]

\* Event::MainEventsCleared => window.request_redraw().  `last`, the result of
\* the last frame attempt, is not read.
MainEventsClearedArm(win, last) ==
    [window |-> [win EXCEPT !.redraw_requested = TRUE],
     calls |-> <<"window.request_redraw">>]

---------------------------------------------------------------------------
(* Behaviour *)

Snapshot == [state |-> state, control_flow |-> control_flow]

Init ==
    /\ phase = "Start"
    /\ state = NoState
    /\ control_flow = "Poll"
    /\ window = [redraw_requested |-> FALSE]
    /\ pc = "Idle"
    /\ event = NoEvent
    /\ calls = <<>>
    /\ pre = [state |-> NoState, control_flow |-> "Poll"]
    /\ last_result = "None"
    /\ prev_result = "None"
    /\ batch_events = FALSE

\* run, lines 11-18: the window is built and State::new awaited.
New ==
    /\ phase = "Start"
    /\ \E inner_size \in PositiveSizes, adapter \in BOOLEAN, device \in BOOLEAN,
          formats \in FormatLists :
         LET r == new(inner_size, adapter, device, formats)
         IN  /\ phase' = IF r.ok THEN "Events" ELSE "Panicked"
             /\ state' = r.self
             /\ calls' = r.calls
    /\ pre' = Snapshot
    /\ UNCHANGED <<control_flow, window, pc, event, last_result, prev_result,
                   batch_events>>

\* The loop hands the closure a window event.
WindowEvent ==
    /\ phase = "Events"
    /\ pc = "Idle"
    /\ \E ev \in WindowEvents :
         LET r == WindowEventArm(state, control_flow, ev)
         IN  /\ event' = ev
             /\ state' = r.self
             /\ control_flow' = r.control_flow
             /\ calls' = r.calls
    /\ pre' = Snapshot
    /\ batch_events' = TRUE
    /\ UNCHANGED <<phase, window, pc, last_result, prev_result>>

\* The loop has emptied the batch and hands the closure MainEventsCleared.
MainEventsCleared ==
    /\ phase = "Events"
    /\ pc = "Idle"
    /\ LET r == MainEventsClearedArm(window, last_result)
       IN  /\ window' = r.window
           /\ calls' = r.calls
    /\ event' = LoopEvent("MainEventsCleared", "window")
    /\ pre' = Snapshot
    /\ phase' = "Redraws"
    /\ UNCHANGED <<state, control_flow, pc, last_result, prev_result, batch_events>>

\* The loop hands the closure the redraw this window asked for:
\* state.update() runs and state.render() is entered.
RedrawRequested ==
    /\ phase = "Redraws"
    /\ pc = "Idle"
    /\ window.redraw_requested
    /\ RedrawArmTaken("window")
    /\ window' = [window EXCEPT !.redraw_requested = FALSE]
    /\ event' = LoopEvent("RedrawRequested", "window")
    /\ pre' = Snapshot
    /\ state' = update(state)
    /\ calls' = <<"state.update">>
    /\ pc' = "FrameRequested"
    /\ UNCHANGED <<phase, control_flow, last_result, prev_result, batch_events>>

\* A redraw of another window: the guard of the arm decides, and `_ => {}`
\* takes the event when it fails.
ForeignRedrawRequested ==
    /\ phase = "Redraws"
    /\ pc = "Idle"
    /\ event' = LoopEvent("RedrawRequested", "other_window")
    /\ pre' = Snapshot
    /\ IF RedrawArmTaken("other_window")
       THEN /\ state' = update(state)
            /\ calls' = <<"state.update">>
            /\ pc' = "FrameRequested"
       ELSE /\ calls' = <<>>
            /\ UNCHANGED <<state, pc>>
    /\ UNCHANGED <<phase, control_flow, window, last_result, prev_result,
                   batch_events>>

\* surface.get_current_texture() returns a texture.
AcquireOk ==
    /\ pc = "FrameRequested"
    /\ calls' = calls \o <<"surface.get_current_texture">>
    /\ pc' = "FrameAcquired"
    /\ UNCHANGED <<phase, state, control_flow, window, event, pre, last_result,
                   prev_result, batch_events>>

\* surface.get_current_texture() fails: `?` returns the error to the closure.
AcquireErr ==
    /\ pc = "FrameRequested"
    /\ \E e \in SurfaceError :
         LET r == RenderErrArm(state, control_flow, e)
         IN  /\ state' = r.self
             /\ control_flow' = r.control_flow
             /\ calls' = calls \o <<"surface.get_current_texture">> \o r.calls
             /\ last_result' = e
    /\ prev_result' = last_result
    /\ pc' = "Idle"
    /\ UNCHANGED <<phase, window, event, pre, batch_events>>

\* The render pass is recorded, the command buffer finished and submitted.
EncodeSubmit ==
    /\ pc = "FrameAcquired"
    /\ calls' = calls \o render_encode \o render_submit
    /\ pc' = "Submitted"
    /\ UNCHANGED <<phase, state, control_flow, window, event, pre, last_result,
                   prev_result, batch_events>>

\* The acquired image is presented and render returns Ok(()).
Present ==
    /\ pc = "Submitted"
    /\ calls' = calls \o render_present
    /\ last_result' = "Ok"
    /\ prev_result' = last_result
    /\ pc' = "Idle"
    /\ UNCHANGED <<phase, state, control_flow, window, event, pre, batch_events>>

\* The loop closes the iteration (`_ => {}`), and stops when control_flow is Exit.
RedrawEventsCleared ==
    /\ phase = "Redraws"
    /\ pc = "Idle"
    /\ ~window.redraw_requested
    /\ event' = LoopEvent("RedrawEventsCleared", "window")
    /\ pre' = Snapshot
    /\ calls' = <<>>
    /\ phase' = IF control_flow = "Exit" THEN "Destroyed" ELSE "Events"
    /\ batch_events' = FALSE
    /\ UNCHANGED <<state, control_flow, window, pc, last_result, prev_result>>

Next ==
    \/ New
    \/ WindowEvent
    \/ MainEventsCleared
    \/ RedrawRequested
    \/ ForeignRedrawRequested
    \/ AcquireOk
    \/ AcquireErr
    \/ EncodeSubmit
    \/ Present
    \/ RedrawEventsCleared

Spec == Init /\ [][Next]_vars

\* The closure runs on one thread and every handler is straight-line code, so a
\* handler that has begun runs to its end (get_current_texture returns); the
\* loop keeps closing batches, delivering the requested redraw and ending the
\* iteration.
FairSpec ==
    /\ Spec
    /\ WF_vars(AcquireOk \/ AcquireErr \/ EncodeSubmit \/ Present)
    /\ WF_vars(MainEventsCleared \/ RedrawRequested \/ RedrawEventsCleared)

---------------------------------------------------------------------------
(* Vocabulary of the properties *)

Count(seq, c) == Cardinality({i \in DOMAIN seq : seq[i] = c})

Has(seq, c) == \E i \in DOMAIN seq : seq[i] = c

ZeroArea(s) == s.width = 0 \/ s.height = 0

\* The handler of a window event of our window has just returned.
Handled(kinds) ==
    /\ event.type = "WindowEvent"
    /\ event.window_id = "window"
    /\ event.kind \in kinds

\* The handler of a redraw of our window has just returned, render gave `r`.
Tick(r) ==
    /\ event.type = "RedrawRequested"
    /\ event.window_id = "window"
    /\ pc = "Idle"
    /\ last_result = r

ResizeKinds == {"Resized", "ScaleFactorChanged"}

---------------------------------------------------------------------------
(* Properties *)

\* C1. Zero-dimension guard: from every reachable state, resize with a zero width
\* or a zero height leaves the stored size, the configuration and the surface as
\* they were and makes no surface.configure call; so does the handler of a resize
\* event that carries such a size.
C1_ZeroDimensionGuard ==
    /\ \A s \in Sizes :
         ZeroArea(s) => resize(state, s) = [self |-> state, calls |-> <<>>]
    /\ Handled(ResizeKinds) /\ ZeroArea(event.size) =>
         /\ state = pre.state
         /\ ~Has(calls, "surface.configure")

C1_Witness ==
    /\ Handled(ResizeKinds)
    /\ ZeroArea(event.size)
    /\ state.surface.configured

\* C2. Frame protocol completeness: a redraw whose acquisition succeeded has made,
\* when its handler returns, exactly the calls of one frame: one draw of 3 vertices
\* and 1 instance inside the pass, then one submit, then one present; and at no
\* point of a handler has more than one of each been made.
C2_FrameProtocolComplete ==
    /\ Tick("Ok") =>
         calls = <<"state.update", "surface.get_current_texture",
                   "texture.create_view", "device.create_command_encoder",
                   "encoder.begin_render_pass", "render_pass.set_pipeline",
                   "render_pass.draw(0..3, 0..1)", "drop(render_pass)",
                   "encoder.finish", "queue.submit", "output.present">>
    /\ pc = "Submitted" =>
         /\ Count(calls, "render_pass.draw(0..3, 0..1)") = 1
         /\ Count(calls, "queue.submit") = 1
         /\ Count(calls, "output.present") = 0
    /\ \A c \in {"render_pass.draw(0..3, 0..1)", "queue.submit", "output.present"} :
         Count(calls, c) <= 1

C2_Witness == Tick("Ok") /\ Has(calls, "output.present")

C4_FatalTermination ==
    /\ Tick("OutOfMemory") =>
         /\ calls = <<"state.update", "surface.get_current_texture">>
         /\ state = pre.state
    /\ last_result = "OutOfMemory" =>
         /\ control_flow = "Exit"
         /\ pc = "Idle"
         /\ ~window.redraw_requested
         /\ phase \in {"Redraws", "Destroyed"}

\* The loop was running and the failed acquisition is what set Exit.
C4_Witness ==
    /\ Tick("OutOfMemory")
    /\ pre.control_flow = "Poll"
    /\ control_flow = "Exit"

\* C5. Escape-to-exit: after a keyboard event of our window with key Escape, the
\* control flow is Exit when the key state was Pressed and is what it was before
\* when the key state was Released.
C5_EscapeToExit ==
    Handled({"KeyboardInput"}) /\ event.key = "Escape" =>
        /\ event.key_state = "Pressed" => control_flow = "Exit"
        /\ event.key_state = "Released" => control_flow = pre.control_flow

C5_Witness ==
    /\ Handled({"KeyboardInput"})
    /\ event.key = "Escape"
    /\ event.key_state = "Pressed"
    /\ pre.control_flow = "Poll"
    /\ control_flow = "Exit"

\* C6. Continuous redraw cadence: the handler of every MainEventsCleared makes
\* exactly one window.request_redraw call and leaves a redraw pending, whatever the
\* batch held and whatever the last frame attempt gave; no other handler requests
\* a redraw.
C6_RedrawCadence ==
    /\ event.type = "MainEventsCleared" =>
         /\ Count(calls, "window.request_redraw") = 1
         /\ window.redraw_requested
    /\ event.type # "MainEventsCleared" => ~Has(calls, "window.request_redraw")

\* A batch without window events, after a failed frame attempt.
C6_Witness ==
    /\ event.type = "MainEventsCleared"
    /\ ~batch_events
    /\ last_result = "Timeout"
    /\ window.redraw_requested

C8_IdempotentResize ==
    /\ Handled(ResizeKinds) /\ event.size = pre.state.size => state = pre.state
    /\ \A s \in Sizes :
         resize(resize(state, s).self, s).self = resize(state, s).self

C8_Witness ==
    /\ Handled(ResizeKinds)
    /\ event.size = pre.state.size
    /\ event.size.width # event.size.height
    /\ Has(calls, "surface.configure")

\* C9. Transient acquisition errors: a redraw whose acquisition failed with Timeout
\* or Outdated has only logged the error: no encode, submit, present or configure
\* call, and the state and the control flow are what they were before.
C9_TransientErrors ==
    \A e \in SurfaceError \ {"Lost", "OutOfMemory"} :
        Tick(e) =>
            /\ calls = <<"state.update", "surface.get_current_texture", "log::error">>
            /\ state = pre.state
            /\ control_flow = pre.control_flow

\* The tick after a transient failure renders.
C9_Witness ==
    /\ Tick("Ok")
    /\ prev_result \in {"Timeout", "Outdated"}

\* C10. Resize routing: after a Resized or a ScaleFactorChanged event of our window
\* carrying size s, whichever of the two it was: when both dimensions of s are
\* non-zero the stored size is s, the configuration is the earlier one with the
\* width and height of s, the surface has been configured with it once; otherwise
\* nothing has changed and nothing was configured.  The control flow is unchanged.
C10_ResizeRouting ==
    Handled(ResizeKinds) =>
        LET s == event.size
            config == [pre.state.config EXCEPT !.width = s.width, !.height = s.height]
        IN  /\ control_flow = pre.control_flow
            /\ IF s.width > 0 /\ s.height > 0
               THEN /\ state = [pre.state EXCEPT
                                  !.size = s,
                                  !.config = config,
                                  !.surface = [configured |-> TRUE, config |-> config]]
                    /\ calls = <<"state.input", "surface.configure">>
               ELSE /\ state = pre.state
                    /\ calls = <<"state.input">>

C10_Witness ==
    /\ Handled({"ScaleFactorChanged"})
    /\ event.size # pre.state.size
    /\ state.size = event.size
    /\ Has(calls, "surface.configure")

---------------------------------------------------------------------------
(* Properties of the frame protocol, the startup and the loop *)

\* Every occurrence of b in seq has an a somewhere before it.
Before(seq, a, b) ==
    \A j \in DOMAIN seq : seq[j] = b => \E i \in 1 .. (j - 1) : seq[i] = a

\* Every occurrence of c in seq lies between an earlier a and a later b.
Between(seq, a, c, b) ==
    \A j \in DOMAIN seq :
        seq[j] = c => /\ \E i \in 1 .. (j - 1) : seq[i] = a
                      /\ \E k \in (j + 1) .. Len(seq) : seq[k] = b

\* The calls of State::render after the acquisition.
FrameCalls ==
    {"texture.create_view", "device.create_command_encoder",
     "encoder.begin_render_pass", "render_pass.set_pipeline",
     "render_pass.draw(0..3, 0..1)", "drop(render_pass)",
     "encoder.finish", "queue.submit", "output.present"}

OurRedraw == event.type = "RedrawRequested" /\ event.window_id = "window"

\* C11. Step ordering within one redraw tick: state.update is the first call and is
\* made once; the acquisition precedes the opening of the render pass; the pipeline
\* bind and the draw lie between the opening of the pass (whose load operation is
\* the clear) and its drop; the pass is dropped before encoder.finish; the finished
\* buffer is submitted before the image is presented; and no call of the frame is
\* made outside a redraw tick of our window or after a failed acquisition.
C11_StepOrdering ==
    /\ OurRedraw =>
         /\ Len(calls) >= 1 /\ calls[1] = "state.update"
         /\ Count(calls, "state.update") = 1
         /\ Before(calls, "state.update", "surface.get_current_texture")
         /\ Before(calls, "surface.get_current_texture", "encoder.begin_render_pass")
         /\ Between(calls, "encoder.begin_render_pass", "render_pass.set_pipeline",
                    "drop(render_pass)")
         /\ Between(calls, "encoder.begin_render_pass", "render_pass.draw(0..3, 0..1)",
                    "drop(render_pass)")
         /\ Before(calls, "render_pass.set_pipeline", "render_pass.draw(0..3, 0..1)")
         /\ Before(calls, "drop(render_pass)", "encoder.finish")
         /\ Before(calls, "encoder.finish", "queue.submit")
         /\ Before(calls, "queue.submit", "output.present")
    /\ (\E c \in FrameCalls : Has(calls, c)) =>
         /\ OurRedraw
         /\ Has(calls, "surface.get_current_texture")
         /\ pc = "Submitted" \/ (pc = "Idle" /\ last_result = "Ok")

\* A frame recorded and submitted, not yet presented.
C11_Witness ==
    /\ OurRedraw
    /\ pc = "Submitted"
    /\ Has(calls, "drop(render_pass)")
    /\ Has(calls, "queue.submit")
    /\ ~Has(calls, "output.present")

\* C12. Reconfiguration and rendering are mutually exclusive: while a frame is in
\* flight (acquired, not yet presented) no surface.configure call has been made by
\* the handler and the state is the one the handler began with; a handler that
\* made both a configure call and an acquisition made the acquisition first, it
\* failed with Lost, and no call of the frame was made.
C12_ConfigureExcludesFrame ==
    /\ pc \in {"FrameAcquired", "Submitted"} =>
         /\ ~Has(calls, "surface.configure")
         /\ state = pre.state
    /\ Has(calls, "surface.configure") /\ Has(calls, "surface.get_current_texture") =>
         /\ Before(calls, "surface.get_current_texture", "surface.configure")
         /\ pc = "Idle"
         /\ last_result = "Lost"
         /\ \A c \in FrameCalls : ~Has(calls, c)
    /\ Has(calls, "surface.configure") => pc = "Idle"

\* A frame in flight on a surface that a resize event reconfigured earlier.
C12_Witness ==
    /\ pc = "FrameAcquired"
    /\ state.surface.configured
    /\ batch_events
    /\ Has(calls, "surface.get_current_texture")

\* C13. Format stability: once the surface is configured, the format, present mode
\* (Fifo), alpha mode and usage of the stored configuration and of the surface's
\* configuration are those the handler of the current event began with, whatever
\* the event; and the render pipeline's color target format is the format of the
\* surface's configuration.
C13_FormatStability ==
    state.surface.configured =>
        /\ state.config.present_mode = "Fifo"
        /\ state.config.alpha_mode = "Auto"
        /\ state.config.usage = "RENDER_ATTACHMENT"
        /\ state.surface.config.format = state.config.format
        /\ state.surface.config.present_mode = state.config.present_mode
        /\ state.surface.config.alpha_mode = state.config.alpha_mode
        /\ state.render_pipeline.target_format = state.surface.config.format
        /\ pre.state.surface.configured =>
             /\ state.config.format = pre.state.config.format
             /\ state.render_pipeline = pre.state.render_pipeline

\* The second supported format was not the one chosen, and a Lost recovery has
\* reconfigured the surface.
C13_Witness ==
    /\ Tick("Lost")
    /\ Has(calls, "surface.configure")
    /\ state.config.format = "Rgba8UnormSrgb"
    /\ batch_events

\* C14. The input hook never suppresses default handling: it reports "not consumed"
\* for every window event; the handler of every window event of our window calls
\* it once, before anything else; every CloseRequested leaves the control flow at
\* Exit and every resize event with a non-zero size reaches resize (the size is
\* stored and the surface configured); an event that no arm acts on leaves the
\* state and the control flow as they were.
C14_InputNeverConsumes ==
    /\ \A ev \in WindowEvents : input(state, ev) = FALSE
    /\ Handled(WindowEventKinds) =>
         /\ Len(calls) >= 1 /\ calls[1] = "state.input"
         /\ Count(calls, "state.input") = 1
    /\ Handled({"CloseRequested"}) => control_flow = "Exit"
    /\ Handled(ResizeKinds) /\ ~ZeroArea(event.size) =>
         /\ state.size = event.size
         /\ Before(calls, "state.input", "surface.configure")
         /\ Count(calls, "surface.configure") = 1
    /\ Handled({"Focused"}) =>
         /\ state = pre.state
         /\ control_flow = pre.control_flow
         /\ calls = <<"state.input">>

C14_Witness ==
    /\ Handled({"CloseRequested"})
    /\ pre.control_flow = "Poll"
    /\ control_flow = "Exit"
    /\ calls = <<"state.input">>

\* C15. Startup sequencing and fatal startup errors: State::new requests the
\* adapter, then the device, then the supported formats, then configures the
\* surface, and for every input with no adapter, a denied device or no supported
\* format it fails before the surface is configured and builds no State.  After a
\* failed startup nothing has been configured and no event was ever handled; every
\* handled event and every acquisition finds the surface configured.
C15_StartupSequencing ==
    /\ \A s \in PositiveSizes, adapter \in BOOLEAN, device \in BOOLEAN,
          formats \in FormatLists :
         LET r == new(s, adapter, device, formats)
         IN  /\ r.ok <=> (adapter /\ device /\ Len(formats) > 0)
             /\ ~r.ok => r.self = NoState /\ ~Has(r.calls, "surface.configure")
             /\ ~adapter => ~Has(r.calls, "adapter.request_device")
             /\ ~(adapter /\ device) => ~Has(r.calls, "surface.get_supported_formats")
             /\ r.ok =>
                  /\ r.self.surface.configured
                  /\ r.self.config.format = formats[1]
                  /\ Count(r.calls, "surface.configure") = 1
             /\ Before(r.calls, "instance.request_adapter", "adapter.request_device")
             /\ Before(r.calls, "adapter.request_device", "surface.get_supported_formats")
             /\ Before(r.calls, "surface.get_supported_formats", "surface.configure")
    /\ phase \in {"Start", "Panicked"} =>
         /\ state = NoState
         /\ ~Has(calls, "surface.configure")
         /\ event = NoEvent
         /\ pc = "Idle"
         /\ last_result = "None"
         /\ control_flow = "Poll"
         /\ ~window.redraw_requested
    /\ event # NoEvent => state.surface.configured
    /\ Has(calls, "surface.get_current_texture") => state.surface.configured

\* The surface reported no format: the startup has failed after the device request.
C15_Witness ==
    /\ phase = "Panicked"
    /\ Has(calls, "surface.get_supported_formats")
    /\ state = NoState

\* C17. Exit has exactly three causes and is sticky: a handler that began with the
\* control flow at Exit leaves it at Exit, and a handler that began with Poll has
\* set Exit only if it handled a CloseRequested of our window, a keyboard event of
\* our window with state Pressed and key Escape, or a redraw whose acquisition
\* failed with OutOfMemory.
C17_ExitCauses ==
    /\ control_flow \in {"Poll", "Exit"}
    /\ pre.control_flow = "Exit" => control_flow = "Exit"
    /\ control_flow = "Exit" /\ pre.control_flow = "Poll" =>
         \/ Handled({"CloseRequested"})
         \/ /\ Handled({"KeyboardInput"})
            /\ event.key_state = "Pressed"
            /\ event.key = "Escape"
         \/ Tick("OutOfMemory")

\* Exit was set earlier in the batch; the redraw that follows fails with a
\* transient error and leaves Exit in place.
C17_Witness ==
    /\ Tick("Timeout")
    /\ pre.control_flow = "Exit"
    /\ control_flow = "Exit"

\* C18. Size/config agreement: once the surface is configured, the stored size is
\* the width and height of the stored configuration, and the configuration the
\* surface was last configured with is the stored configuration; resize keeps this
\* for every size, zero-area ones included.
C18_SizeConfigAgreement ==
    state.surface.configured =>
        /\ state.size.width = state.config.width
        /\ state.size.height = state.config.height
        /\ state.surface.config = state.config
        /\ \A s \in Sizes :
             LET r == resize(state, s).self
             IN  /\ r.size.width = r.config.width
                 /\ r.size.height = r.config.height
                 /\ r.surface.config = r.config

\* A Resized event carrying another size than the stored one has been handled.
C18_Witness ==
    /\ Handled({"Resized"})
    /\ event.size # pre.state.size
    /\ Has(calls, "surface.configure")
    /\ state.size = event.size
    /\ state.surface.config.width = event.size.width
    /\ state.surface.config.height = event.size.height

\* C19. Foreign-window events are ignored: after a window event or a redraw request
\* of another window, the state (stored size, configuration, surface) and the
\* control flow are what they were and the handler has made no call: no input
\* hook, resize, update or render; no frame is begun.
C19_ForeignEventsIgnored ==
    event.window_id = "other_window" =>
        /\ state = pre.state
        /\ control_flow = pre.control_flow
        /\ calls = <<>>
        /\ pc = "Idle"

\* A close request of another window while the loop is running.
C19_Witness ==
    /\ event.type = "WindowEvent"
    /\ event.window_id = "other_window"
    /\ event.kind = "CloseRequested"
    /\ control_flow = "Poll"
    /\ state.surface.configured

\* C16. Frame-attempt progress: every frame attempt that has begun returns to
\* Idle; after a redraw whose acquisition failed with Lost or a transient error,
\* another render attempt begins unless the loop stops; and an acquired frame is
\* presented.
C16_FrameProgress ==
    /\ (pc # "Idle") ~> (pc = "Idle")
    /\ (\E e \in SurfaceError \ {"OutOfMemory"} : Tick(e))
         ~> (pc = "FrameRequested" \/ phase = "Destroyed")
    /\ (pc = "FrameAcquired") ~> (Tick("Ok") /\ Has(calls, "output.present"))

\* A new render attempt has begun after a Lost one.
C16_Witness ==
    /\ pc = "FrameRequested"
    /\ last_result = "Lost"
    /\ calls = <<"state.update">>

====
